---------------------------- MODULE Spec2Model ----------------------------
(***************************************************************************)
(* Sliding-window inference of mlpipeline/samplers/inferer.py              *)
(* (sliding_window_inference and MySlidingInferer).                        *)
(*                                                                         *)
(* One behaviour is one call.  Tensors are 2-D (one channel); a batch is a *)
(* sequence of items; an item is [shape |-> <<h, w>>, data |-> f] with f   *)
(* defined on (0..h-1) \X (0..w-1).  Real numbers are exact rationals:     *)
(* the overlap fraction and every zoom scale are pairs <<num, den>>, and   *)
(* importance weights are integers in units of 1e-6, so that the floor     *)
(* 1e-3 of line 89 is the integer 1000.                                    *)
(***************************************************************************)
EXTENDS Integers, Sequences, FiniteSets, TLC

VARIABLES
    cfg,                \* the arguments of the call
    pc,                 \* position in sliding_window_inference
    err,                \* the exception that ended the call, or "none"
    roi_size,           \* line 54
    image_size,         \* lines 56-57
    pad_size,           \* lines 58-62
    inputs,             \* the input batch; padded from line 63 on
    slices,             \* line 70
    importance_map,     \* lines 74-91
    slice_g,            \* loop variable of line 100
    window_data,        \* lines 108-122, 134-139
    seg_prob_tuple,     \* lines 141-153
    dict_key,           \* line 94, 148
    is_tensor_output,   \* line 97, 150, 153
    output_image_list,  \* line 94, 179, 212
    count_map_list,     \* line 94, 181, 214
    final_output,       \* lines 249-258
    calls,              \* history: what each predictor invocation was handed
    accumulated,        \* history: the work units added to the buffers, in order
    warned              \* history: the diagnostics emitted (warnings.warn)

vars == <<cfg, pc, err, roi_size, image_size, pad_size, inputs, slices,
          importance_map, slice_g, window_data, seg_prob_tuple, dict_key,
          is_tensor_output, output_image_list, count_map_list, final_output,
          calls, accumulated, warned>>

-----------------------------------------------------------------------------
(* Bounds of the model.                                                    *)
MaxImage == 3
MaxRoi == 3
MaxBatch == 2
MaxSwBatch == 2

-----------------------------------------------------------------------------
(* Arithmetic.                                                             *)
Max2(a, b) == IF a >= b THEN a ELSE b
Min2(a, b) == IF a <= b THEN a ELSE b

SetMin(S) == CHOOSE x \in S : \A y \in S : x <= y

\* Python's int() of the rational a/b, b > 0: truncation toward zero.
IntTrunc(a, b) == IF a >= 0 THEN a \div b ELSE -((-a) \div b)

\* Python's round() of the rational a/b, a >= 0, b > 0: to nearest, ties to even.
PyRound(a, b) ==
    LET q == a \div b
        r == a % b
    IN  IF 2 * r < b THEN q
        ELSE IF 2 * r > b THEN q + 1
        ELSE IF q % 2 = 0 THEN q ELSE q + 1

\* float.is_integer() of the rational a/b, b > 0.
IsInteger(a, b) == a % b = 0

Grid(shape) == (0 .. shape[1] - 1) \X (0 .. shape[2] - 1)

Tensor(shape, f(_)) == [shape |-> shape, data |-> [p \in Grid(shape) |-> f(p)]]

RECURSIVE SeqSum(_)
SeqSum(s) == IF s = <<>> THEN 0 ELSE Head(s) + SeqSum(Tail(s))

-----------------------------------------------------------------------------
(* The planner: padding, scan interval, window placements.                 *)

\* monai.utils.fall_back_tuple: a scalar is broadcast to every axis, and an
\* entry that is not positive falls back to the image size of its axis.
fall_back_tuple(user, default) ==
    LET t == IF user.tag = "int" THEN [i \in 1..Len(default) |-> user.v]
             ELSE user.v
    IN  [i \in 1..Len(default) |-> IF t[i] > 0 THEN t[i] ELSE default[i]]

PaddedImageSize_Mutant(image_size_, roi) == image_size_

\* lines 56-57
PaddedImageSize(image_size_, roi) ==
    [i \in 1..Len(image_size_) |-> Max2(image_size_[i], roi[i])]

\* lines 58-62: the loop runs from the last axis to the first, so the list is
\* <<before last axis, after last axis, before first axis, after first axis>>.
PadSize(shape, roi) ==
    LET diff(k) == Max2(roi[k] - shape[k], 0)
        half(k) == diff(k) \div 2
    IN  <<half(2), diff(2) - half(2), half(1), diff(1) - half(1)>>

\* The value of the input image at batch element b (0-based), position p.
InputValue(b, p) == 1 + 100 * b + 10 * p[1] + p[2]

InputItem(b, shape) == Tensor(shape, LAMBDA p : InputValue(b, p))

\* lines 63-64, torch.nn.functional.pad in constant mode: pad[1..2] belong to
\* the last axis, pad[3..4] to the one before it.
FunctionalPad(item, pad, cval) ==
    LET h == item.shape[1]
        w == item.shape[2]
        shape == <<h + pad[3] + pad[4], w + pad[1] + pad[2]>>
        inside(p) == /\ p[1] >= pad[3] /\ p[1] < pad[3] + h
                     /\ p[2] >= pad[1] /\ p[2] < pad[1] + w
    IN  Tensor(shape, LAMBDA p : IF inside(p)
                                   THEN item.data[<<p[1] - pad[3], p[2] - pad[1]>>]
                                   ELSE cval)

ScanIntervalAxis_Mutant(img, roi, overlap) ==
    IF roi = img THEN roi
    ELSE LET interval == PyRound(roi * (overlap[2] - overlap[1]), overlap[2])
         IN  IF interval > 0 THEN interval ELSE 1

\* monai.inferers.utils._get_scan_interval (called at lines 66-67):
\* int(roi * (1 - overlap)), at least 1, and the whole window on an axis the
\* window fills.
ScanIntervalAxis(img, roi, overlap) ==
    IF roi = img THEN roi
    ELSE LET interval == IntTrunc(roi * (overlap[2] - overlap[1]), overlap[2])
         IN  IF interval > 0 THEN interval ELSE 1

get_scan_interval(img_size, roi, overlap) ==
    [i \in 1..Len(img_size) |-> ScanIntervalAxis(img_size[i], roi[i], overlap)]

\* monai.data.utils.get_valid_patch_size (line 75, and inside dense_patch_slices)
get_valid_patch_size(img_size, patch) ==
    [i \in 1..Len(img_size) |->
        Min2(img_size[i], IF patch[i] = 0 THEN img_size[i] ELSE patch[i])]

\* monai.data.utils.dense_patch_slices, one axis: the number of placements,
\* then each start, shifted back when the window would pass the boundary.
ScanNum(img, patch, interval) ==
    IF interval = 0 THEN 1
    ELSE LET num == (img + interval - 1) \div interval
             ok == {d \in 0..(num - 1) : d * interval + patch >= img}
         IN  IF ok = {} THEN 1 ELSE SetMin(ok) + 1

AxisStarts(img, patch, interval) ==
    [k \in 1..ScanNum(img, patch, interval) |->
        LET start == (k - 1) * interval
        IN  start - Max2(start + patch - img, 0)]

\* monai.data.utils.dense_patch_slices (line 70): the placements in "ij" order,
\* each <<<<start0, stop0>>, <<start1, stop1>>>>.
dense_patch_slices(img_size, patch_size, interval) ==
    LET patch == get_valid_patch_size(img_size, patch_size)
        s1 == AxisStarts(img_size[1], patch[1], interval[1])
        s2 == AxisStarts(img_size[2], patch[2], interval[2])
        n2 == Len(s2)
    IN  [k \in 1..(Len(s1) * n2) |->
            LET a == s1[((k - 1) \div n2) + 1]
                b == s2[((k - 1) % n2) + 1]
            IN  <<<<a, a + patch[1]>>, <<b, b + patch[2]>>>>]

-----------------------------------------------------------------------------
(* The importance map.                                                     *)

\* The floor of line 89, 1e-3, in units of 1e-6.
WeightFloor == 1000

\* The separable Gaussian of monai's compute_importance_map along one axis of
\* n points: centre n // 2, sigma 0.125 * n, peak 1, in units of 1e-3.  The
\* library's filter is cut off at four sigma, so far points are exactly 0.
GaussianProfile(n) ==
    CASE n = 1 -> <<1000>>
      [] n = 2 -> <<0, 1000>>
      [] n = 3 -> <<29, 1000, 29>>
      [] n = 4 -> <<0, 135, 1000, 135>>
      [] n = 5 -> <<6, 278, 1000, 278, 6>>
      [] OTHER -> [i \in 1..n |-> IF i = (n \div 2) + 1 THEN 1000 ELSE 0]

\* monai.inferers.utils.compute_importance_map (lines 80-81)
compute_importance_map(patch, mode) ==
    IF mode = "constant"
    THEN Tensor(patch, LAMBDA p : 1000000)
    ELSE Tensor(patch, LAMBDA p : GaussianProfile(patch[1])[p[1] + 1]
                                  * GaussianProfile(patch[2])[p[2] + 1])

\* line 76: the supplied map is taken whenever one is supplied and the valid
\* patch size is the window size; the map's own shape is not looked at.
ChooseImportanceMap(valid_patch_size, roi, roi_weight_map, mode) ==
    IF valid_patch_size = roi /\ roi_weight_map.tag # "none"
    THEN roi_weight_map.v
    ELSE compute_importance_map(valid_patch_size, mode)

NonZeroEntries(map) == {map.data[p] : p \in {q \in Grid(map.shape) : map.data[q] # 0}}

\* line 89; evaluated only when the map has a non-zero entry
MinNonZero(map) == Max2(SetMin(NonZeroEntries(map)), WeightFloor)

\* lines 90-91: torch.clamp(min=min_non_zero)
ClampMap(map) ==
    LET m == MinNonZero(map)
    IN  [shape |-> map.shape, data |-> [p \in Grid(map.shape) |-> Max2(map.data[p], m)]]

\* monai.transforms.Resize in "nearest" mode (lines 186-187, 209-210):
\* destination index i reads source index floor(i * in / out).
ResizeNearest(map, shape) ==
    Tensor(shape, LAMBDA p : map.data[<<(p[1] * map.shape[1]) \div shape[1],
                                        (p[2] * map.shape[2]) \div shape[2]>>])

-----------------------------------------------------------------------------
(* The predictor: an opaque callable.  What it returns on its i-th call is *)
(* cfg.predictor.first for i < switchAt and cfg.predictor.later afterwards;*)
(* a return value is [kind, heads] with kind "tensor", "seq" or "map" and  *)
(* heads the head names (for a mapping: its keys in its own order).  Each  *)
(* head treats the items of a batch independently.                         *)

HeadNames == {"a", "b", "c"}

KeyRank(k) == CASE k = "a" -> 1 [] k = "b" -> 2 [] k = "c" -> 3

\* Head "a" returns its input; "b" has twice the input's resolution; "c" has
\* half of it (rounded up).
HeadShape(name, shape) ==
    CASE name = "a" -> shape
      [] name = "b" -> <<2 * shape[1], 2 * shape[2]>>
      [] name = "c" -> <<(shape[1] + 1) \div 2, (shape[2] + 1) \div 2>>

HeadOut(name, item) ==
    CASE name = "a" -> item
      [] name = "b" -> Tensor(HeadShape(name, item.shape),
                              LAMBDA p : 2 * item.data[<<p[1] \div 2, p[2] \div 2>>] + 1)
      [] name = "c" -> Tensor(HeadShape(name, item.shape),
                              LAMBDA p : item.data[<<2 * p[1], 2 * p[2]>>] + 7)

\* What the predictor returns on its call number i (0-based).
PredictorReturn(predictor, i) ==
    IF i < predictor.switchAt THEN predictor.first ELSE predictor.later

\* The tensors of a return value: head name -> batch of predictions.
PredictorOutput(ret, batch) ==
    [k \in {ret.heads[j] : j \in 1..Len(ret.heads)} |->
        [n \in 1..Len(batch) |-> HeadOut(k, batch[n])]]

\* torch.nn.functional.interpolate to a given size (lines 117-122, 128-139).
\* Only the shape and the sampling grid are modelled: the value at a
\* destination point is the source value nearest to it.
Interpolate(batch, size) ==
    [n \in 1..Len(batch) |-> ResizeNearest(batch[n], size)]

\* sorted() of a sequence of distinct keys (line 148)
SortKeys(keys) ==
    LET S == {keys[j] : j \in 1..Len(keys)}
    IN  [i \in 1..Len(keys) |->
            CHOOSE k \in S : Cardinality({x \in S : KeyRank(x) < KeyRank(k)}) = i - 1]

SeqToSet(s) == {s[j] : j \in 1..Len(s)}

-----------------------------------------------------------------------------
(* Slicing and the scatter-add of the accumulator.                         *)

\* A Python slice <<start, stop>> applied to an axis of n points.
ClipSlice(sl, n) ==
    LET lo == Min2(sl[1], n)
        hi == Min2(sl[2], n)
    IN  <<lo, Max2(hi, lo)>>

\* item[slice0, slice1] (line 109)
Crop(item, sl) ==
    LET c1 == ClipSlice(sl[1], item.shape[1])
        c2 == ClipSlice(sl[2], item.shape[2])
    IN  Tensor(<<c1[2] - c1[1], c2[2] - c2[1]>>,
               LAMBDA p : item.data[<<p[1] + c1[1], p[2] + c2[1]>>])

\* lines 159-170: the zoom scale out_w / in_w of each axis, as <<out_w, in_w>>
ZoomScale(seg_shape, win_shape) ==
    [axis \in 1..2 |-> <<seg_shape[axis], win_shape[axis]>>]

\* lines 165-169
NonIntegerShape(img_size, zoom) ==
    \E axis \in 1..2 : ~IsInteger(img_size[axis] * zoom[axis][1], zoom[axis][2])

\* lines 175-177: int(image_size_d * zoom_scale_d)
OutputShape(img_size, zoom) ==
    [axis \in 1..2 |-> IntTrunc(img_size[axis] * zoom[axis][1], zoom[axis][2])]

\* lines 195-198: a window bound times the zoom scale is not an integer
NonIntegerRange(sl, zoom) ==
    \E axis \in 1..2 : \/ ~IsInteger(sl[axis][1] * zoom[axis][1], zoom[axis][2])
                       \/ ~IsInteger(sl[axis][2] * zoom[axis][1], zoom[axis][2])

ZoomSlice_Mutant(sl, zoom) ==
    [axis \in 1..2 |-> <<PyRound(sl[axis][1] * zoom[axis][1], zoom[axis][2]),
                         PyRound(sl[axis][2] * zoom[axis][1], zoom[axis][2])>>]

\* lines 207-208: slice(int(zoomed_start), int(zoomed_end))
ZoomSlice(sl, zoom) ==
    [axis \in 1..2 |-> <<IntTrunc(sl[axis][1] * zoom[axis][1], zoom[axis][2]),
                         IntTrunc(sl[axis][2] * zoom[axis][1], zoom[axis][2])>>]

\* The region buf[sl] of a buffer, after Python's clipping of each slice.
Region(buf, sl) ==
    [axis \in 1..2 |-> ClipSlice(sl[axis], buf.shape[axis])]

RegionShape(reg) == [axis \in 1..2 |-> reg[axis][2] - reg[axis][1]]

\* Whether torch can add a tensor of shape rhs to a region: on every axis the
\* sizes agree or the right-hand side has size 1 (broadcasting).
Broadcastable(rhs, reg) ==
    \A axis \in 1..2 : rhs[axis] = RegionShape(reg)[axis] \/ rhs[axis] = 1

\* buf[sl] += rhs
AddRegion(buf, reg, rhs) ==
    LET in(p) == \A axis \in 1..2 : p[axis] >= reg[axis][1] /\ p[axis] < reg[axis][2]
        src(p) == [axis \in 1..2 |-> IF rhs.shape[axis] = 1 THEN 0
                                     ELSE p[axis] - reg[axis][1]]
    IN  [shape |-> buf.shape,
         data |-> [p \in Grid(buf.shape) |->
                      buf.data[p] + (IF in(p) THEN rhs.data[src(p)] ELSE 0)]]

Weighted_Mutant(wmap, pred) == pred

\* importance_map_zoom * seg_prob[idx - slice_g] (lines 212-213)
Weighted(wmap, pred) ==
    Tensor(pred.shape, LAMBDA p : wmap.data[p] * pred.data[p])

Zeros(shape) == Tensor(shape, LAMBDA p : 0)

-----------------------------------------------------------------------------
(* The loop body, lines 100-217.                                           *)

num_win == Len(slices)                      \* line 71
total_slices_Mutant == num_win
total_slices == num_win * cfg.batch_size    \* line 72
initialized_ss == Len(output_image_list) - 1    \* _initialized_ss, lines 95, 183

\* lines 101-107: the work units of the group starting at g, each the batch
\* element int(idx / num_win) (0-based) and the placement idx % num_win.
UnravelSlice(g, sw_batch_size, nwin, total) ==
    [k \in 1..(Min2(g + sw_batch_size, total) - g) |->
        [b |-> (g + k - 1) \div nwin, win |-> ((g + k - 1) % nwin) + 1]]

\* lines 108-111: torch.cat of the extracted patches
ExtractWindows(batch, group, sl) ==
    [k \in 1..Len(group) |-> Crop(batch[group[k].b + 1], sl[group[k].win])]

\* lines 114-115: both assertions; roi_size[1] is compared with the first
\* spatial axis of the patch and roi_size[0] with the second.
PatchAssertions(shape, roi) == shape[1] = roi[2] /\ shape[2] = roi[1]

\* line 116: the test that decides the resampling of lines 117-122
NeedsResize(shape, input_size) == shape[1] # input_size[2] \/ shape[2] # input_size[1]

NeedsResizeBack_Mutant(roi, input_size) == FALSE

\* line 127
NeedsResizeBack(roi, input_size) == roi[1] # input_size[1] \/ roi[2] # input_size[2]

\* lines 190-217 for one head: the work units of the group, in order.  st is
\* [out, cnt, ok, ranges, log]; a unit whose slice of the buffer cannot take
\* the weighted prediction raises, and nothing after it runs.
RECURSIVE AccumulateWindows(_, _, _)
AccumulateWindows(st, k, ctx) ==
    IF k > Len(ctx.group) \/ ~st.ok THEN st
    ELSE LET unit == ctx.group[k]
             zsl == ZoomSlice(ctx.slices[unit.win], ctx.zoom)
             reg == Region(st.cnt, zsl)
             rhs == Weighted(ctx.wmap, ctx.seg[k])
             fits == unit.b + 1 <= Len(st.out) /\ Broadcastable(rhs.shape, reg)
         IN  IF ~fits
             THEN [st EXCEPT !.ok = FALSE]
             ELSE AccumulateWindows(
                    [out |-> [st.out EXCEPT ![unit.b + 1] = AddRegion(@, reg, rhs)],
                     \* the count buffer has batch extent 1: the batch slice
                     \* b:b+1 of it is empty for b >= 1
                     cnt |-> IF unit.b = 0 THEN AddRegion(st.cnt, reg, ctx.wmap)
                             ELSE st.cnt,
                     ok |-> TRUE,
                     ranges |-> st.ranges \/ NonIntegerRange(ctx.slices[unit.win], ctx.zoom),
                     log |-> Append(st.log, [head |-> ctx.ss, from |-> unit,
                                             into |-> unit.b, region |-> reg])],
                    k + 1, ctx)

\* lines 156-217: every head of the group's result, in order.  st is
\* [outs, cnts, ok, warned, log].
RECURSIVE AccumulateHeads(_, _, _)
AccumulateHeads(st, ss, ctx) ==
    IF ss > Len(ctx.tuple) \/ ~st.ok THEN st
    ELSE LET seg == ctx.tuple[ss]
             zoom == ZoomScale(seg[1].shape, ctx.window_shape)
             fresh == Len(st.outs) < ss
             shape == OutputShape(ctx.image_size, zoom)
             outs == IF fresh
                     THEN Append(st.outs, [b \in 1..ctx.batch_size |-> Zeros(shape)])
                     ELSE st.outs
             cnts == IF fresh THEN Append(st.cnts, Zeros(shape)) ELSE st.cnts
             r == AccumulateWindows(
                     [out |-> outs[ss], cnt |-> cnts[ss], ok |-> TRUE,
                      ranges |-> FALSE, log |-> st.log],
                     1,
                     [group |-> ctx.group, slices |-> ctx.slices, zoom |-> zoom,
                      wmap |-> ResizeNearest(ctx.importance_map, seg[1].shape),
                      seg |-> seg, ss |-> ss])
         IN  AccumulateHeads(
                [outs |-> [outs EXCEPT ![ss] = r.out],
                 cnts |-> [cnts EXCEPT ![ss] = r.cnt],
                 ok |-> r.ok,
                 warned |-> st.warned
                            \cup (IF NonIntegerShape(ctx.image_size, zoom)
                                  THEN {"non-integer shape"} ELSE {})
                            \cup (IF r.ranges THEN {"non-integer range"} ELSE {}),
                 log |-> r.log],
                ss + 1, ctx)

-----------------------------------------------------------------------------
(* The finalizer, lines 219-258.  A quotient is kept as <<numerator,       *)
(* denominator>>; a denominator 0 is what torch returns as NaN or Inf.     *)

Divide_Mutant(out, cnt) ==
    [b \in 1..Len(out) |->
        [shape |-> out[b].shape,
         data |-> [p \in Grid(out[b].shape) |-> <<out[b].data[p], 1>>]]]

\* lines 221-222: output_image_list[ss] / count_map_list.pop(0)
Divide(out, cnt) ==
    [b \in 1..Len(out) |->
        [shape |-> out[b].shape,
         data |-> [p \in Grid(out[b].shape) |-> <<out[b].data[p], cnt.data[p]>>]]]

\* line 226
HasNanOrInf(out) ==
    \E b \in 1..Len(out) : \E p \in Grid(out[b].shape) : out[b].data[p][2] = 0

FinalSlice_Mutant(axis, oshape, roi, pad, image_size_) ==
    LET before == pad[2 * (axis - 1) + 1]
    IN  <<PyRound(before * oshape[axis], roi[axis]),
          PyRound((image_size_[axis] + before) * oshape[axis], roi[axis])>>

\* lines 230-243: the slice kept on one axis.  The zoom scale is the whole
\* output's size over the window size; the padding before the axis is
\* pad_size[0] for the last axis and pad_size[2] for the first.
FinalSlice(axis, oshape, roi, pad, image_size_) ==
    LET before == pad[2 * (2 - axis) + 1]
    IN  <<PyRound(before * oshape[axis], roi[axis]),
          PyRound((image_size_[axis] + before) * oshape[axis], roi[axis])>>

\* line 247: output_i[final_slicing]
StripPadding(out, roi, pad, image_size_) ==
    [b \in 1..Len(out) |->
        Crop(out[b], [axis \in 1..2 |->
                         FinalSlice(axis, out[b].shape, roi, pad, image_size_)])]

\* lines 249-253: a mapping zips the tracked keys with the heads; otherwise a
\* tuple, of which a tensor predictor gets the first element.
AssembleKeys(dkey, outs) ==
    IF dkey.tag = "none" THEN <<>>
    ELSE SubSeq(dkey.v, 1, Min2(Len(dkey.v), Len(outs)))

AssembleOutput(dkey, outs, tensor_output) ==
    IF tensor_output
    THEN [kind |-> "tensor", keys |-> <<>>, heads |-> <<outs[1]>>]
    ELSE IF dkey.tag # "none"
    THEN [kind |-> "map", keys |-> AssembleKeys(dkey, outs),
          heads |-> SubSeq(outs, 1, Min2(Len(dkey.v), Len(outs)))]
    ELSE [kind |-> "seq", keys |-> <<>>, heads |-> outs]

-----------------------------------------------------------------------------
(* The calls the model explores.                                           *)

\* Overlap fractions <<num, den>>: -1/4, 0, 1/4, 1/2, 3/4, 1 and 5/4.
Overlaps == {<<-1, 4>>, <<0, 4>>, <<1, 4>>, <<2, 4>>, <<3, 4>>, <<4, 4>>, <<5, 4>>}

SeqArg(v) == [tag |-> "seq", v |-> v]
IntArg(v) == [tag |-> "int", v |-> v]
NoArg == [tag |-> "none"]

Ret(kind, heads) == [kind |-> kind, heads |-> heads]

\* A predictor that returns the same container on every call.
Consistent(ret) == [first |-> ret, later |-> ret, switchAt |-> 0]

\* A predictor that returns `first` on its calls before switchAt and `later`
\* from then on.
Switching(first, later, at) == [first |-> first, later |-> later, switchAt |-> at]

IdentityPredictor == Consistent(Ret("tensor", <<"a">>))

Returns ==
    {Ret("tensor", <<"a">>), Ret("seq", <<"a">>), Ret("seq", <<"a", "b">>),
     Ret("map", <<"a", "b">>), Ret("map", <<"c", "a">>), Ret("map", <<"a">>),
     Ret("map", <<"a", "b", "c">>), Ret("map", <<"b", "c">>)}

Predictors ==
    {Consistent(r) : r \in Returns}
    \cup {Switching(rr[1], rr[2], at) : rr \in {x \in Returns \X Returns : x[1] # x[2]}, at \in {1}}

\* The fields of a call: the arguments of sliding_window_inference; is_meta,
\* whether inputs is a MetaTensor; via, whether the caller went through
\* MySlidingInferer.__call__ ("inferer") or called the function itself; args
\* and kwargs, the extra positional arguments and the keyword arguments (pairs
\* <<name, value>>) the caller passed.
Calls(shapes, rois, overlaps, batches, sws, modes, progresses, predictors) ==
    {[image_size_ |-> sh, batch_size |-> bs, roi_size |-> SeqArg(roi),
      input_size |-> SeqArg(roi), sw_batch_size |-> sw, overlap |-> ov,
      mode |-> mode, cval |-> 0, progress |-> pr, roi_weight_map |-> NoArg,
      predictor |-> pred, is_meta |-> FALSE,
      via |-> "function", args |-> <<>>, kwargs |-> {}] :
        sh \in shapes, roi \in rois, ov \in overlaps, bs \in batches, sw \in sws,
        mode \in modes, pr \in progresses, pred \in predictors}

NoTensor == [shape |-> <<0, 0>>, data |-> <<>>]

InitWith(C) ==
    /\ cfg \in C
    /\ pc = "start"
    /\ err = "none"
    /\ roi_size = <<>>
    /\ image_size = <<>>
    /\ pad_size = <<>>
    /\ inputs = [b \in 1..cfg.batch_size |-> InputItem(b - 1, cfg.image_size_)]
    /\ slices = <<>>
    /\ importance_map = NoTensor
    /\ slice_g = 0
    /\ window_data = <<>>
    /\ seg_prob_tuple = <<>>
    /\ dict_key = NoArg
    /\ is_tensor_output = TRUE
    /\ output_image_list = <<>>
    /\ count_map_list = <<>>
    /\ final_output = NoArg
    /\ calls = <<>>
    /\ accumulated = <<>>
    /\ warned = {}

\* Every geometry, grouping and blend mode, with the identity predictor.
Init ==
    InitWith(Calls((1..MaxImage) \X (1..MaxImage), (1..MaxRoi) \X (1..MaxRoi),
                   Overlaps, 1..MaxBatch, 1..MaxSwBatch, {"constant", "gaussian"},
                   {FALSE}, {IdentityPredictor}))

\* Every predictor, on an image the window fills and on one it does not; and
\* the predictors that honour their contract with Gaussian weights as well.
InitContract ==
    InitWith(Calls({<<MaxRoi, MaxRoi>>, <<MaxRoi + 1, MaxRoi + 1>>}, {<<MaxRoi, MaxRoi>>},
                   {<<0, 4>>}, 1..MaxBatch, 1..MaxSwBatch, {"constant"},
                   {FALSE}, Predictors)
             \cup Calls({<<MaxRoi, MaxRoi>>, <<MaxRoi + 1, MaxRoi + 1>>},
                        {<<MaxRoi, MaxRoi>>}, {<<0, 4>>}, 1..MaxBatch, 1..MaxSwBatch,
                        {"gaussian"}, {FALSE}, {Consistent(r) : r \in Returns}))

\* MySlidingInferer.__init__, lines 292-294: without a predictor input
\* resolution the inferer keeps the window size as it was given.
InfererInit(roi_arg, input_arg) == IF input_arg.tag = "none" THEN roi_arg ELSE input_arg

\* Predictor input resolutions that differ from the window size: calls on
\* every image up to the bound with windows and input resolutions that are
\* square and not, a tensor predictor, one that returns a sequence and one
\* that returns a mapping.
ResampleCalls ==
    {[c EXCEPT !.input_size = SeqArg(s)] :
        c \in Calls((1..MaxImage) \X (1..MaxImage),
                    {<<2, 2>>, <<MaxRoi, MaxRoi>>, <<2, MaxRoi>>},
                    {<<0, 4>>, <<2, 4>>}, 1..MaxBatch, {MaxSwBatch}, {"constant"}, {FALSE},
                    {IdentityPredictor, Consistent(Ret("seq", <<"a", "b">>)),
                     Consistent(Ret("map", <<"a", "b">>))}),
        s \in {<<1, 1>>, <<4, 4>>, <<2, MaxRoi>>, <<MaxRoi, 2>>}}

\* Heads of twice and of half the window's resolution, on images smaller
\* than, equal to and larger than the window.
ZoomCalls ==
    Calls({<<1, 1>>, <<2, 2>>, <<2, 4>>, <<4, 4>>, <<MaxImage + 2, 4>>}, {<<2, 2>>, <<4, 4>>},
          {<<0, 4>>, <<2, 4>>}, {1}, {MaxSwBatch}, {"constant", "gaussian"}, {FALSE},
          {Consistent(Ret("seq", <<"a", "b">>)), Consistent(Ret("map", <<"c", "a">>)),
           Consistent(Ret("map", <<"a", "b", "c">>))})

InitResolution == InitWith(ResampleCalls \cup ZoomCalls)

\* A predictor that raises on every call, or from its call number `at` on.
FailingPredictors ==
    {Consistent(Ret("raise", <<>>)),
     Switching(Ret("tensor", <<"a">>), Ret("raise", <<>>), 1),
     Switching(Ret("seq", <<"a", "b">>), Ret("raise", <<>>), 2)}

\* What a caller passes besides the documented arguments: extra positional
\* arguments and keyword arguments <<name, value>>.
Extras ==
    {[args |-> <<>>, kwargs |-> {}],
     [args |-> <<"x", "y">>, kwargs |-> {<<"t", "1">>}],
     [args |-> <<"x">>, kwargs |-> {<<"device", "cpu">>, <<"t", "1">>}],
     [args |-> <<>>, kwargs |-> {<<"device", "cpu">>}]}

\* The callers: through MySlidingInferer built without input_size, with the
\* window size given per axis or as one scalar, or calling the function with
\* an explicit input_size; with and without metadata on the input.
CallerCalls ==
    {[c EXCEPT !.via = v, !.args = x.args, !.kwargs = x.kwargs, !.is_meta = m,
               !.roi_size = r,
               !.input_size = IF v = "inferer" THEN InfererInit(r, NoArg)
                              ELSE c.input_size] :
        c \in Calls({<<2, 2>>, <<MaxImage, MaxImage>>}, {<<2, 2>>}, {<<0, 4>>},
                    1..MaxBatch, 1..MaxSwBatch, {"constant"}, {FALSE},
                    {IdentityPredictor, Consistent(Ret("map", <<"a", "b">>))}
                    \cup FailingPredictors),
        v \in {"function", "inferer"}, x \in Extras, m \in BOOLEAN,
        r \in {SeqArg(<<2, 2>>), IntArg(2)}}

InitCaller == InitWith(CallerCalls)

\* A precomputed map as a caller supplies it (roi_weight_map, line 30), in
\* units of 1e-6: all entries positive; one entry zero and the others below
\* the floor; one entry negative; all entries zero.
SuppliedMap(shape, pattern) ==
    [tag |-> "map",
     v |-> Tensor(shape, LAMBDA p :
              CASE pattern = "positive" -> 500000 * (1 + p[1] + p[2])
                [] pattern = "holes" -> IF p = <<0, 0>> THEN 0 ELSE 400 + p[1]
                [] pattern = "negative" -> IF p = <<0, 0>> THEN -1000000 ELSE 2000000
                [] pattern = "zeros" -> 0)]

\* Calls with a map computed by the engine, and with supplied maps of the
\* window's shape and of other shapes.
WeightCalls ==
    {[c EXCEPT !.roi_weight_map = m] :
        c \in Calls({<<2, 2>>, <<1, MaxImage>>, <<MaxImage, MaxImage>>}, {<<2, 2>>},
                    {<<0, 4>>, <<2, 4>>}, 1..MaxBatch, 1..MaxSwBatch,
                    {"constant", "gaussian"}, {FALSE}, {IdentityPredictor}),
        m \in {NoArg}
              \cup {SuppliedMap(sh, pat) :
                       sh \in {<<2, 2>>, <<1, 1>>, <<3, 2>>},
                       pat \in {"positive", "holes", "negative", "zeros"}}}

InitWeights == InitWith(WeightCalls)

\* Long images, so that an axis holds several placements before the last:
\* every window size and every overlap, one batch element.
PlanCalls ==
    Calls((1..(MaxImage + 2)) \X {1, MaxRoi}, (1..MaxRoi) \X (1..MaxRoi), Overlaps,
          {1}, {MaxSwBatch}, {"constant"}, {FALSE}, {IdentityPredictor})

InitPlan == InitWith(PlanCalls)

\* The same calls with progress reporting off and on.
ProgressCalls ==
    Calls({<<2, 2>>, <<MaxImage, MaxImage>>}, {<<2, 2>>}, Overlaps, 1..MaxBatch,
          1..MaxSwBatch, {"constant"}, BOOLEAN,
          {IdentityPredictor, Consistent(Ret("seq", <<"a", "b">>))})

InitProgress == InitWith(ProgressCalls)

Raise(e) == pc' = "raised" /\ err' = e

-----------------------------------------------------------------------------
(* The steps of sliding_window_inference.                                  *)

\* line 42, on the rational overlap[1] / overlap[2]
OverlapOutOfRange_Mutant(overlap) == overlap[1] < 0 \/ overlap[1] > overlap[2]

OverlapOutOfRange(overlap) == overlap[1] < 0 \/ overlap[1] >= overlap[2]

\* lines 40-43
CheckOverlap ==
    /\ pc = "start"
    /\ IF OverlapOutOfRange(cfg.overlap)
       THEN Raise("ValueError")
       ELSE pc' = "pad" /\ err' = err
    /\ UNCHANGED <<cfg, roi_size, image_size, pad_size, inputs, slices,
                   importance_map, slice_g, window_data, seg_prob_tuple, dict_key,
                   is_tensor_output, output_image_list, count_map_list,
                   final_output, calls, accumulated, warned>>

\* lines 47-64
Pad ==
    /\ pc = "pad"
    /\ LET roi == fall_back_tuple(cfg.roi_size, cfg.image_size_)
           pad == PadSize(cfg.image_size_, roi)
       IN  /\ roi_size' = roi
           /\ image_size' = PaddedImageSize(cfg.image_size_, roi)
           /\ pad_size' = pad
           /\ inputs' = [b \in 1..Len(inputs) |-> FunctionalPad(inputs[b], pad, cfg.cval)]
    /\ pc' = "plan"
    /\ UNCHANGED <<cfg, err, slices, importance_map, slice_g, window_data,
                   seg_prob_tuple, dict_key, is_tensor_output, output_image_list,
                   count_map_list, final_output, calls, accumulated, warned>>

\* lines 66-72
Plan ==
    /\ pc = "plan"
    /\ slices' = dense_patch_slices(image_size, roi_size,
                                    get_scan_interval(image_size, roi_size, cfg.overlap))
    /\ pc' = "weights"
    /\ UNCHANGED <<cfg, err, roi_size, image_size, pad_size, inputs,
                   importance_map, slice_g, window_data, seg_prob_tuple, dict_key,
                   is_tensor_output, output_image_list, count_map_list,
                   final_output, calls, accumulated, warned>>

\* lines 74-91; .min() of line 89 raises on a map without a non-zero entry
Weights ==
    /\ pc = "weights"
    /\ LET map == ChooseImportanceMap(get_valid_patch_size(image_size, roi_size),
                                      roi_size, cfg.roi_weight_map, cfg.mode)
       IN  IF NonZeroEntries(map) = {}
           THEN Raise("RuntimeError") /\ importance_map' = importance_map
           ELSE pc' = "loop" /\ err' = err /\ importance_map' = ClampMap(map)
    /\ UNCHANGED <<cfg, roi_size, image_size, pad_size, inputs, slices, slice_g,
                   window_data, seg_prob_tuple, dict_key, is_tensor_output,
                   output_image_list, count_map_list, final_output, calls,
                   accumulated, warned>>

\* lines 93-100: with progress set, tqdm(...) calls the module tqdm (line 5
\* imports the module, not the class), which raises TypeError
EnterLoop ==
    /\ pc = "loop"
    /\ IF cfg.progress
       THEN Raise("TypeError")
       ELSE pc' = "extract" /\ err' = err
    /\ slice_g' = 0
    /\ UNCHANGED <<cfg, roi_size, image_size, pad_size, inputs, slices,
                   importance_map, window_data, seg_prob_tuple, dict_key,
                   is_tensor_output, output_image_list, count_map_list,
                   final_output, calls, accumulated, warned>>

\* lines 101-122; input_size[1] of line 116 raises TypeError on a scalar
Extract ==
    /\ pc = "extract"
    /\ LET group == UnravelSlice(slice_g, cfg.sw_batch_size, num_win, total_slices)
           data == ExtractWindows(inputs, group, slices)
       IN  IF ~PatchAssertions(data[1].shape, roi_size)
           THEN Raise("AssertionError") /\ window_data' = data
           ELSE IF cfg.input_size.tag # "seq"
           THEN Raise("TypeError") /\ window_data' = data
           ELSE /\ pc' = "predict"
                /\ err' = err
                /\ window_data' = IF NeedsResize(data[1].shape, cfg.input_size.v)
                                  THEN Interpolate(data, cfg.input_size.v)
                                  ELSE data
    /\ UNCHANGED <<cfg, roi_size, image_size, pad_size, inputs, slices,
                   importance_map, slice_g, seg_prob_tuple, dict_key,
                   is_tensor_output, output_image_list, count_map_list,
                   final_output, calls, accumulated, warned>>

\* line 148: the keys are tracked on the first mapping returned
TrackKeys(dkey, ret) ==
    IF ret.kind = "map" /\ dkey.tag = "none"
    THEN [tag |-> "keys", v |-> SortKeys(ret.heads)]
    ELSE dkey

\* line 149 raises KeyError when the mapping lacks a tracked key
MissingKey(dkey, ret) ==
    ret.kind = "map" /\ \E k \in SeqToSet(dkey.v) : k \notin SeqToSet(ret.heads)

ToTuple_Mutant(dkey, ret, out) == [i \in 1..Len(ret.heads) |-> out[ret.heads[i]]]

\* lines 143-153: the heads of the result as a tuple
ToTuple(dkey, ret, out) ==
    IF ret.kind = "map"
    THEN [i \in 1..Len(dkey.v) |-> out[dkey.v[i]]]
    ELSE [i \in 1..Len(ret.heads) |-> out[ret.heads[i]]]

\* lines 150, 153
TensorOutput(was, ret) == IF ret.kind = "tensor" THEN was ELSE FALSE

\* The names of the parameters of sliding_window_inference that a keyword
\* argument of a direct call can bind to (lines 17-30).
ParameterNames ==
    {"inputs", "roi_size", "input_size", "sw_batch_size", "predictor", "overlap",
     "mode", "sigma_scale", "padding_mode", "cval", "sw_device", "device",
     "progress", "roi_weight_map"}

\* line 313: MySlidingInferer.__call__ pops the keyword "device" before it
\* passes **kwargs on (lines 333-334)
InfererCallKwargs(kwargs) == {kv \in kwargs : kv[1] # "device"}

\* **kwargs of line 32 as line 125 passes it to the predictor: a keyword that
\* names a parameter is bound to the parameter and is not part of it.
ForwardedKwargs(via, kwargs) ==
    IF via = "inferer" THEN InfererCallKwargs(kwargs)
    ELSE {kv \in kwargs : kv[1] \notin ParameterNames}

PredictorRaised_Mutant(ret) == FALSE

\* line 125: the predictor raised instead of returning
PredictorRaised(ret) == ret.kind = "raise"

\* lines 123-153: one invocation of the predictor on the group, the resampling
\* back to the window size, and the conversion of the result to a tuple.
\* functional.interpolate of line 128 takes a tensor only.  A predictor that
\* raises (kind "raise") ends the call: line 125 is inside no try block.
Predict ==
    /\ pc = "predict"
    /\ LET ret == PredictorReturn(cfg.predictor, Len(calls))
           out == PredictorOutput(ret, window_data)
           back == NeedsResizeBack(roi_size, cfg.input_size.v)
           dkey == TrackKeys(dict_key, ret)
       IN  /\ calls' = Append(calls,
                  [shape |-> window_data[1].shape,
                   group |-> UnravelSlice(slice_g, cfg.sw_batch_size, num_win,
                                          total_slices),
                   args |-> cfg.args,
                   kwargs |-> ForwardedKwargs(cfg.via, cfg.kwargs)])
           /\ IF PredictorRaised(ret)
              THEN /\ Raise("PredictorError")
                   /\ UNCHANGED <<window_data, seg_prob_tuple, dict_key, is_tensor_output>>
              ELSE IF back /\ ret.kind # "tensor"
              THEN /\ Raise("AttributeError")
                   /\ UNCHANGED <<window_data, seg_prob_tuple, dict_key, is_tensor_output>>
              ELSE IF MissingKey(dkey, ret)
              THEN /\ Raise("KeyError")
                   /\ UNCHANGED <<window_data, seg_prob_tuple, is_tensor_output>>
                   /\ dict_key' = dkey
              ELSE /\ pc' = "accumulate"
                   /\ err' = err
                   /\ window_data' = IF back THEN Interpolate(window_data, roi_size)
                                     ELSE window_data
                   /\ dict_key' = dkey
                   /\ is_tensor_output' = TensorOutput(is_tensor_output, ret)
                   /\ seg_prob_tuple' =
                        ToTuple(dkey, ret,
                                IF back
                                THEN [k \in DOMAIN out |-> Interpolate(out[k], roi_size)]
                                ELSE out)
    /\ UNCHANGED <<cfg, roi_size, image_size, pad_size, inputs, slices,
                   importance_map, slice_g, output_image_list, count_map_list,
                   final_output, accumulated, warned>>

\* lines 155-217, then the next iteration of line 100
Accumulate ==
    /\ pc = "accumulate"
    /\ LET r == AccumulateHeads(
                  [outs |-> output_image_list, cnts |-> count_map_list, ok |-> TRUE,
                   warned |-> warned, log |-> accumulated],
                  1,
                  [tuple |-> seg_prob_tuple, window_shape |-> window_data[1].shape,
                   image_size |-> image_size, batch_size |-> cfg.batch_size,
                   importance_map |-> importance_map, slices |-> slices,
                   group |-> UnravelSlice(slice_g, cfg.sw_batch_size, num_win,
                                          total_slices)])
       IN  IF ~r.ok
           THEN /\ Raise("RuntimeError")
                /\ UNCHANGED <<slice_g, output_image_list, count_map_list,
                               accumulated, warned>>
           ELSE /\ output_image_list' = r.outs
                /\ count_map_list' = r.cnts
                /\ accumulated' = r.log
                /\ warned' = r.warned
                /\ slice_g' = slice_g + cfg.sw_batch_size
                /\ pc' = IF slice_g + cfg.sw_batch_size < total_slices
                         THEN "extract" ELSE "normalize"
                /\ err' = err
    /\ UNCHANGED <<cfg, roi_size, image_size, pad_size, inputs, slices,
                   importance_map, window_data, seg_prob_tuple, dict_key,
                   is_tensor_output, final_output, calls>>

\* lines 219-222
Normalize ==
    /\ pc = "normalize"
    /\ output_image_list' = [ss \in 1..Len(output_image_list) |->
                                Divide(output_image_list[ss], count_map_list[ss])]
    /\ count_map_list' = <<>>
    /\ pc' = "strip"
    /\ UNCHANGED <<cfg, err, roi_size, image_size, pad_size, inputs, slices,
                   importance_map, slice_g, window_data, seg_prob_tuple, dict_key,
                   is_tensor_output, final_output, calls, accumulated, warned>>

\* lines 224-247
Strip ==
    /\ pc = "strip"
    /\ warned' = warned \cup
                 (IF \E ss \in 1..Len(output_image_list) : HasNanOrInf(output_image_list[ss])
                  THEN {"nan or inf"} ELSE {})
    /\ output_image_list' = [ss \in 1..Len(output_image_list) |->
                                StripPadding(output_image_list[ss], roi_size, pad_size,
                                             cfg.image_size_)]
    /\ pc' = "assemble"
    /\ UNCHANGED <<cfg, err, roi_size, image_size, pad_size, inputs, slices,
                   importance_map, slice_g, window_data, seg_prob_tuple, dict_key,
                   is_tensor_output, count_map_list, final_output, calls, accumulated>>

\* lines 249-258; convert_to_dst_type of line 256 is not imported, so a
\* MetaTensor input raises NameError
Assemble ==
    /\ pc = "assemble"
    /\ IF cfg.is_meta
       THEN Raise("NameError") /\ final_output' = final_output
       ELSE /\ pc' = "done"
            /\ err' = err
            /\ final_output' = AssembleOutput(dict_key, output_image_list,
                                              is_tensor_output)
    /\ UNCHANGED <<cfg, roi_size, image_size, pad_size, inputs, slices,
                   importance_map, slice_g, window_data, seg_prob_tuple, dict_key,
                   is_tensor_output, output_image_list, count_map_list, calls,
                   accumulated, warned>>

Next ==
    \/ CheckOverlap
    \/ Pad
    \/ Plan
    \/ Weights
    \/ EnterLoop
    \/ Extract
    \/ Predict
    \/ Accumulate
    \/ Normalize
    \/ Strip
    \/ Assemble

Spec == Init /\ [][Next]_vars

SpecContract == InitContract /\ [][Next]_vars

SpecResolution == InitResolution /\ [][Next]_vars

SpecCaller == InitCaller /\ [][Next]_vars

SpecWeights == InitWeights /\ [][Next]_vars

SpecPlan == InitPlan /\ [][Next]_vars

SpecProgress == InitProgress /\ [][Next]_vars

-----------------------------------------------------------------------------
(* Properties.                                                             *)

\* The batch as the caller passed it, before any padding.
OriginalInputs == [b \in 1..cfg.batch_size |-> InputItem(b - 1, cfg.image_size_)]

Planned == pc \notin {"start", "pad", "plan"} /\ slices # <<>>

\* C1: a call whose overlap fraction o has o < 0 or o >= 1 ends with the
\* configuration error (ValueError) while the input is still unpadded, no
\* window is planned, the predictor has not been invoked and no output
\* exists; a call with 0 <= o < 1 never ends with that error.
C1_OverlapRejectedFirst ==
    LET outside == cfg.overlap[1] < 0 \/ cfg.overlap[1] >= cfg.overlap[2]
    IN  /\ (outside /\ pc # "start") =>
              /\ pc = "raised" /\ err = "ValueError"
              /\ inputs = OriginalInputs /\ pad_size = <<>> /\ slices = <<>>
              /\ calls = <<>> /\ final_output = NoArg
        /\ ~outside => err # "ValueError"

\* C1 witness: the call with overlap exactly 1 has been rejected.
C1_Witness ==
    pc = "raised" /\ err = "ValueError" /\ cfg.overlap[1] = cfg.overlap[2]

\* C2: once the placements are enumerated, each lies inside the padded input,
\* has the window size on both axes, every index of the padded input is in
\* some placement, and the last placement ends at the padded boundary on both
\* axes.
C2_PlacementsCoverPaddedImage ==
    Planned =>
        LET extent == inputs[1].shape
            roi == fall_back_tuple(cfg.roi_size, cfg.image_size_)
        IN  /\ \A k \in 1..Len(slices) : \A axis \in 1..2 :
                  /\ 0 <= slices[k][axis][1]
                  /\ slices[k][axis][2] <= extent[axis]
                  /\ slices[k][axis][2] - slices[k][axis][1] = roi[axis]
            /\ \A p \in Grid(extent) : \E k \in 1..Len(slices) : \A axis \in 1..2 :
                  slices[k][axis][1] <= p[axis] /\ p[axis] < slices[k][axis][2]
            /\ \A axis \in 1..2 : slices[Len(slices)][axis][2] = extent[axis]

\* C2 witness: one axis was padded up to the window, the other holds several
\* placements of which the last was shifted back to end at the boundary.
C2_Witness ==
    /\ Planned
    /\ cfg.image_size_[1] < roi_size[1]
    /\ Len(slices) >= 2
    /\ slices[Len(slices)][2][1] < slices[Len(slices) - 1][2][2]
    /\ slices[Len(slices)][2][2] = image_size[2]

\* C4: for a head of the window's own resolution, the slice the finalizer
\* keeps of the padded buffer is the region the original image occupies in
\* the padded input, and the array returned has the original spatial shape.
C4_PaddingRoundTrip ==
    /\ pc = "strip" =>
          \A ss \in 1..Len(output_image_list) : \A b \in 1..cfg.batch_size :
              output_image_list[ss][b].shape = inputs[b].shape =>
                  Crop(inputs[b],
                       [axis \in 1..2 |->
                           FinalSlice(axis, output_image_list[ss][b].shape, roi_size,
                                      pad_size, cfg.image_size_)])
                  = OriginalInputs[b]
    /\ pc = "done" =>
          \A ss \in 1..Len(final_output.heads) : \A b \in 1..cfg.batch_size :
              final_output.heads[ss][b].shape = cfg.image_size_

\* C4 witness: a call returned whose image was smaller than the window on the
\* first axis by an odd amount and larger than the window on the second.
C4_Witness ==
    /\ pc = "done"
    /\ pad_size[4] = pad_size[3] + 1
    /\ cfg.image_size_[2] > roi_size[2]
    /\ final_output.heads[1][1].shape = cfg.image_size_

InSlice(q, sl) == \A axis \in 1..2 : sl[axis][1] <= q[axis] /\ q[axis] < sl[axis][2]

\* The sum of f(k) over the placements k that contain q.
CoveringSum(q, f(_)) ==
    SeqSum([k \in 1..Len(slices) |-> IF InSlice(q, slices[k]) THEN f(k) ELSE 0])

Offset(q, sl) == <<q[1] - sl[1][1], q[2] - sl[2][1]>>

\* C5: with the identity predictor, before the division the buffers hold, at
\* every location of every batch element, the sum of the importance weights
\* of exactly the placements covering it and the sum of weight * prediction
\* over them; the returned value at every location is the input's value.
C5_IdentityRoundTrip ==
    /\ (pc = "normalize" /\ cfg.predictor = IdentityPredictor) =>
          \A b \in 1..cfg.batch_size : \A q \in Grid(inputs[b].shape) :
              /\ count_map_list[1].data[q]
                   = CoveringSum(q, LAMBDA k : importance_map.data[Offset(q, slices[k])])
              /\ output_image_list[1][b].data[q]
                   = CoveringSum(q, LAMBDA k :
                        importance_map.data[Offset(q, slices[k])]
                        * HeadOut("a", Crop(inputs[b], slices[k])).data[Offset(q, slices[k])])
    /\ (pc = "done" /\ cfg.predictor = IdentityPredictor) =>
          /\ final_output.kind = "tensor"
          /\ \A b \in 1..cfg.batch_size :
                /\ final_output.heads[1][b].shape = cfg.image_size_
                /\ \A p \in Grid(cfg.image_size_) :
                      LET v == final_output.heads[1][b].data[p]
                      IN  v[2] > 0 /\ v[1] = InputValue(b - 1, p) * v[2]

\* C5 witness: a call returned that blended overlapping Gaussian-weighted
\* windows of two batch elements.
C5_Witness ==
    /\ pc = "done"
    /\ cfg.predictor = IdentityPredictor
    /\ cfg.mode = "gaussian"
    /\ cfg.batch_size = 2
    /\ cfg.overlap = <<2, 4>>
    /\ \E k \in 1..Len(slices) : \E j \in 1..Len(slices) :
          k # j /\ \E q \in Grid(image_size) : InSlice(q, slices[k]) /\ InSlice(q, slices[j])

AllUnits == {[b |-> b, win |-> w] : b \in 0..(cfg.batch_size - 1), w \in 1..Len(slices)}

Handed(u) == {gk \in (1..Len(calls)) \X (1..MaxSwBatch) :
                 gk[2] <= Len(calls[gk[1]].group) /\ calls[gk[1]].group[gk[2]] = u}

\* C7: inside the loop the predictor has been invoked once for every group
\* started; when the call returns, it was invoked
\* ceil(num_windows * batch_size / sw_batch_size) times, every group but the
\* last holds sw_batch_size work units, every (batch element, placement) pair
\* was handed to the predictor in exactly one group, and for every head it was
\* added exactly once, to the buffer of its own batch element at its own
\* placement.
C7_OneInvocationPerGroup ==
    LET total == Len(slices) * cfg.batch_size
        sw == cfg.sw_batch_size
    IN  /\ pc \in {"extract", "predict"} => Len(calls) * sw = slice_g
        /\ pc = "accumulate" => (Len(calls) - 1) * sw = slice_g
        /\ pc = "done" =>
              /\ Len(calls) = (total + sw - 1) \div sw
              /\ \A g \in 1..Len(calls) :
                    Len(calls[g].group) = IF g < Len(calls) THEN sw
                                          ELSE total - (Len(calls) - 1) * sw
              /\ \A g \in 1..Len(calls) : \A k \in 1..Len(calls[g].group) :
                    calls[g].group[k] \in AllUnits
              /\ \A u \in AllUnits :
                    /\ Cardinality(Handed(u)) = 1
                    /\ \A ss \in 1..Len(final_output.heads) :
                          LET added == {i \in 1..Len(accumulated) :
                                           /\ accumulated[i].head = ss
                                           /\ accumulated[i].from = u}
                          IN  /\ Cardinality(added) = 1
                              /\ \A i \in added :
                                    /\ accumulated[i].into = u.b
                                    /\ accumulated[i].region = slices[u.win]

\* C7 witness: a call returned after at least three groups, one of which held
\* work units of two batch elements.
C7_Witness ==
    /\ pc = "done"
    /\ Len(calls) >= 3
    /\ \E g \in 1..Len(calls) :
          /\ Len(calls[g].group) = 2
          /\ calls[g].group[1].b # calls[g].group[2].b

\* What the predictor returned on its i-th invocation (1-based).
Returned(i) == PredictorReturn(cfg.predictor, i - 1)

HonoursContract == cfg.predictor.first = cfg.predictor.later

\* C3: whenever the finalizer is about to divide, every element of every
\* head's count buffer is strictly positive.
C3_CountPositiveAtDivision ==
    pc = "normalize" =>
        \A ss \in 1..Len(count_map_list) :
            \A p \in Grid(count_map_list[ss].shape) : count_map_list[ss].data[p] > 0

\* The stitched result of one head computed from the plan alone: at every
\* location of the head's padded buffer the pair <<sum of weight * prediction,
\* sum of weight>> over the placements whose zoomed slice contains it, then
\* the padding stripped.
RefBuffer(name, b) ==
    LET hshape == HeadShape(name, roi_size)
        zoom == ZoomScale(hshape, roi_size)
        wz == ResizeNearest(importance_map, hshape)
        zs(k) == ZoomSlice(slices[k], zoom)
    IN  Tensor(OutputShape(image_size, zoom), LAMBDA q :
            <<SeqSum([k \in 1..Len(slices) |->
                  IF InSlice(q, zs(k))
                  THEN wz.data[Offset(q, zs(k))]
                       * HeadOut(name, Crop(inputs[b], slices[k])).data[Offset(q, zs(k))]
                  ELSE 0]),
              SeqSum([k \in 1..Len(slices) |->
                  IF InSlice(q, zs(k)) THEN wz.data[Offset(q, zs(k))] ELSE 0])>>)

StitchedRef(name) ==
    StripPadding([b \in 1..cfg.batch_size |-> RefBuffer(name, b)], roi_size, pad_size,
                 cfg.image_size_)

\* C6: when the image has the window's size on both axes and the overlap is
\* 0, there is one placement and no padding, and for a predictor that returns
\* the same container on every call each head's returned value is, for every
\* batch element and location, the value the predictor gives on the whole
\* image.
C6_WindowFillsImage ==
    (/\ fall_back_tuple(cfg.roi_size, cfg.image_size_) = cfg.image_size_
     /\ cfg.overlap[1] = 0) =>
        /\ Planned => /\ Len(slices) = 1
                      /\ pad_size = <<0, 0, 0, 0>>
                      /\ inputs = OriginalInputs
        /\ (pc = "done" /\ HonoursContract) =>
              /\ Len(calls) = (cfg.batch_size + cfg.sw_batch_size - 1) \div cfg.sw_batch_size
              /\ Len(final_output.heads) = Len(cfg.predictor.first.heads)
              /\ \A j \in 1..Len(final_output.heads) : \A b \in 1..cfg.batch_size :
                    LET name == IF final_output.kind = "map" THEN final_output.keys[j]
                                ELSE cfg.predictor.first.heads[j]
                        direct == HeadOut(name, OriginalInputs[b])
                        got == final_output.heads[j][b]
                    IN  /\ got.shape = direct.shape
                        /\ \A p \in Grid(direct.shape) :
                              /\ got.data[p][2] > 0
                              /\ got.data[p][1] = direct.data[p] * got.data[p][2]

\* C6 witness: such a call returned with Gaussian weights, two batch elements
\* in one group and a head of twice the window's resolution.
C6_Witness ==
    /\ pc = "done"
    /\ cfg.image_size_ = roi_size
    /\ cfg.overlap[1] = 0
    /\ cfg.mode = "gaussian"
    /\ cfg.batch_size = 2
    /\ cfg.sw_batch_size = 2
    /\ cfg.predictor = Consistent(Ret("seq", <<"a", "b">>))
    /\ Len(final_output.heads) = 2

\* C8: once the predictor has returned a mapping on its first invocation and
\* a mapping with another key set on a later one, the call has ended with an
\* error and there is no output.
C8_KeySetMismatchAborts ==
    \A i \in 2..Len(calls) :
        (/\ Returned(1).kind = "map"
         /\ Returned(i).kind = "map"
         /\ SeqToSet(Returned(i).heads) # SeqToSet(Returned(1).heads))
        => (pc = "raised" /\ final_output = NoArg)

\* C9: once the predictor has returned, on a later invocation, another kind
\* of container than on its first one, or an ordered sequence of another
\* length, the call has ended with an error and there is no output.
C9_KindOrArityMismatchAborts ==
    \A i \in 2..Len(calls) :
        (\/ Returned(i).kind # Returned(1).kind
         \/ /\ Returned(1).kind = "seq"
            /\ Len(Returned(i).heads) # Len(Returned(1).heads))
        => (pc = "raised" /\ final_output = NoArg)

\* C10: when the predictor returns the same container on every call, the
\* output is a single array for a tensor, a sequence with as many heads in
\* the same order for a sequence, and a mapping with exactly the predictor's
\* keys for a mapping; and every head of it, or value of a key, is the
\* stitched result of that head, or of that key's head.
C10_ContainerAsPredictor ==
    (pc = "done" /\ HonoursContract) =>
        LET ret == cfg.predictor.first
        IN  /\ final_output.kind = ret.kind
            /\ Len(final_output.heads) = Len(ret.heads)
            /\ ret.kind = "map" =>
                  /\ Len(final_output.keys) = Len(ret.heads)
                  /\ SeqToSet(final_output.keys) = SeqToSet(ret.heads)
            /\ \A j \in 1..Len(final_output.heads) :
                  final_output.heads[j]
                    = StitchedRef(IF ret.kind = "map" THEN final_output.keys[j]
                                  ELSE ret.heads[j])

\* C10 witness: a call returned a mapping, stitched from several placements,
\* whose keys the predictor gave in another order than the sorted one.
C10_Witness ==
    /\ pc = "done"
    /\ cfg.predictor = Consistent(Ret("map", <<"c", "a">>))
    /\ final_output.kind = "map"
    /\ final_output.keys = <<"a", "c">>
    /\ Len(slices) > 1


\* C11: when the predictor input resolution differs from the window size,
\* every patch the predictor was handed has the input resolution, every
\* prediction about to be accumulated has the window size and was added to a
\* region of the window size, and every head of the output has the original
\* image's spatial size.
C11_ResampledAroundPredictor ==
    (/\ pc \notin {"start", "pad"}
     /\ cfg.input_size.tag = "seq"
     /\ cfg.input_size.v # roi_size) =>
        /\ \A i \in 1..Len(calls) : calls[i].shape = cfg.input_size.v
        /\ pc = "accumulate" =>
              \A ss \in 1..Len(seg_prob_tuple) : \A n \in 1..Len(seg_prob_tuple[ss]) :
                  seg_prob_tuple[ss][n].shape = roi_size
        /\ \A i \in 1..Len(accumulated) : RegionShape(accumulated[i].region) = roi_size
        /\ pc = "done" =>
              \A ss \in 1..Len(final_output.heads) : \A b \in 1..cfg.batch_size :
                  final_output.heads[ss][b].shape = cfg.image_size_

\* C11 witness: a call returned whose window [2,2] was resampled to [4,4]
\* for the predictor, over several placements of an image padded on one axis.
C11_Witness ==
    /\ pc = "done"
    /\ roi_size = <<2, 2>>
    /\ cfg.input_size.v = <<4, 4>>
    /\ cfg.image_size_[1] < 2
    /\ Len(slices) >= 2
    /\ \A i \in 1..Len(calls) : calls[i].shape = <<4, 4>>
    /\ final_output.heads[1][1].shape = cfg.image_size_

\* Whether the rational a / b (b > 0) is an integer n.
RatIs(a, b, n) == a = n * b

\* C12: in a call without resampling and with a predictor that returns the
\* same container every time, a head whose prediction has z times the window
\* size on each axis, with (original image size) * z an integer, is returned
\* with spatial size (original image size) * z on each axis.
C12_OutputSizeIsImageTimesZoom ==
    (/\ pc = "done"
     /\ HonoursContract
     /\ cfg.input_size.v = roi_size) =>
        \A j \in 1..Len(final_output.heads) :
            LET name == IF final_output.kind = "map" THEN final_output.keys[j]
                        ELSE cfg.predictor.first.heads[j]
                z == ZoomScale(HeadShape(name, roi_size), roi_size)
            IN  \A axis \in 1..2 :
                    IsInteger(cfg.image_size_[axis] * z[axis][1], z[axis][2]) =>
                        RatIs(cfg.image_size_[axis] * z[axis][1], z[axis][2],
                              final_output.heads[j][1].shape[axis])


\* C13: once an invocation of the predictor has raised, the call has ended
\* with that error, that invocation was the last one, no work unit of its
\* group was added to a buffer, and there is no output.
C13_PredictorFailurePropagates ==
    \A n \in 1..Len(calls) :
        Returned(n).kind = "raise" =>
            /\ pc = "raised" /\ err = "PredictorError"
            /\ n = Len(calls)
            /\ \A g \in 1..(n - 1) : Returned(g).kind # "raise"
            /\ \A i \in 1..Len(accumulated) : \A k \in 1..Len(calls[n].group) :
                  accumulated[i].from # calls[n].group[k]
            /\ \A i \in 1..Len(accumulated) :
                  \E g \in 1..(n - 1) : \E k \in 1..Len(calls[g].group) :
                      accumulated[i].from = calls[g].group[k]
            /\ final_output = NoArg

\* C13 witness: the predictor raised on its third group, after two groups
\* had been accumulated.
C13_Witness ==
    /\ pc = "raised" /\ err = "PredictorError"
    /\ Len(calls) = 3
    /\ accumulated # <<>>
    /\ final_output = NoArg

\* C14: on every invocation the predictor received the caller's extra
\* positional arguments and every keyword argument the caller passed: all of
\* them through MySlidingInferer.__call__, and those that name no parameter
\* of sliding_window_inference in a direct call.
C14_ExtrasForwardedVerbatim ==
    \A i \in 1..Len(calls) :
        /\ calls[i].args = cfg.args
        /\ calls[i].kwargs = IF cfg.via = "inferer" THEN cfg.kwargs
                             ELSE {kv \in cfg.kwargs : kv[1] \notin ParameterNames}

\* C15: a call on an input with metadata does not end with the error of the
\* metadata step (the errors of the earlier steps are those the same call
\* without metadata ends with), so a call that stitched its heads returns.
C15_MetadataDoesNotFail ==
    cfg.is_meta => ~(pc = "raised" /\ err = "NameError")

\* C16: a call through an inferer built without an input resolution, with a
\* predictor that does not raise and an input without metadata, never ends
\* with an error; the predictor is handed the extracted patches as they are,
\* and what is accumulated is its result on them as it is.
C16_DefaultInputSizeIsLegacy ==
    (/\ cfg.via = "inferer"
     /\ cfg.input_size = cfg.roi_size
     /\ ~cfg.is_meta
     /\ cfg.predictor \notin FailingPredictors) =>
        LET group == UnravelSlice(slice_g, cfg.sw_batch_size, num_win, total_slices)
            patches == ExtractWindows(inputs, group, slices)
            ret == Returned(Len(calls))
        IN  /\ pc # "raised"
            /\ pc = "predict" => window_data = patches
            /\ pc = "accumulate" =>
                  /\ window_data = patches
                  /\ seg_prob_tuple = ToTuple(dict_key, ret, PredictorOutput(ret, patches))


\* The invocation (1-based) whose group held the work unit u.
GroupOf(u) == ((u.b * Len(slices) + u.win - 1) \div cfg.sw_batch_size) + 1

\* The name of head ss of the tuple made of what invocation g returned.
HeadNameAt(g, ss) ==
    IF Returned(g).kind = "map" THEN dict_key.v[ss] ELSE Returned(g).heads[ss]

\* The importance weight, and the prediction, that the accumulated entry e
\* contributed at location x of its head's buffer.
WeightAt(e, x) ==
    ResizeNearest(importance_map,
                  HeadShape(HeadNameAt(GroupOf(e.from), e.head), roi_size)).data[Offset(x, e.region)]

PredictionAt(e, x) ==
    HeadOut(HeadNameAt(GroupOf(e.from), e.head),
            Crop(inputs[e.from.b + 1], slices[e.from.win])).data[Offset(x, e.region)]

\* C17: when the finalizer is about to divide, for every head, batch element
\* b and location x, the count that output[b][x] is divided by is the sum of
\* the importance weights of exactly the windows that were accumulated into
\* output[b] at x, and output[b][x] is the sum of weight * prediction over
\* those windows.
C17_NormalisationConsistent ==
    pc = "normalize" =>
        \A ss \in 1..Len(output_image_list) : \A b \in 1..cfg.batch_size :
            \A x \in Grid(output_image_list[ss][b].shape) :
                LET mine(i) == /\ accumulated[i].head = ss
                               /\ accumulated[i].into = b - 1
                               /\ InSlice(x, accumulated[i].region)
                IN  /\ count_map_list[ss].data[x]
                         = SeqSum([i \in 1..Len(accumulated) |->
                                      IF mine(i) THEN WeightAt(accumulated[i], x) ELSE 0])
                    /\ output_image_list[ss][b].data[x]
                         = SeqSum([i \in 1..Len(accumulated) |->
                                      IF mine(i)
                                      THEN WeightAt(accumulated[i], x)
                                           * PredictionAt(accumulated[i], x)
                                      ELSE 0])


\* The floor step has run: the map the accumulation will use exists.
Floored == importance_map # NoTensor

\* C18: the floor step succeeds on every map, computed or supplied (also on
\* one with zero or negative entries or with zeros only); after it every
\* entry of the map is at least the floor, hence positive; and a map computed
\* in uniform mode has every entry equal to 1, as before the step.
C18_FloorMakesMapPositive ==
    /\ ~(pc = "raised" /\ err = "RuntimeError" /\ ~Floored)
    /\ Floored =>
          /\ \A p \in Grid(importance_map.shape) : importance_map.data[p] >= WeightFloor
          /\ (cfg.mode = "constant" /\ cfg.roi_weight_map.tag = "none") =>
                \A p \in Grid(importance_map.shape) : importance_map.data[p] = 1000000

\* C19: after the floor step the map in use is the supplied one (floored) if
\* one was supplied and its shape is the valid window shape, and otherwise
\* the map the engine computes for the valid window shape (floored).
C19_SuppliedMapUsedIffShapeMatches ==
    Floored =>
        LET valid == get_valid_patch_size(image_size, roi_size)
            given == cfg.roi_weight_map
        IN  IF given.tag = "map" /\ given.v.shape = valid
            THEN importance_map = ClampMap(given.v)
            ELSE importance_map = ClampMap(compute_importance_map(valid, cfg.mode))


\* The starts of the placements along an axis, and the start that follows s.
StartsOn(axis) == {slices[k][axis][1] : k \in 1..Len(slices)}

NextStart(axis, s) == SetMin({t \in StartsOn(axis) : t > s})

LastStart(axis) == CHOOSE s \in StartsOn(axis) : \A t \in StartsOn(axis) : t <= s

\* C20 as stated: on every axis where the padded image is larger than the
\* window, a placement and the one after it, unless that one is the last,
\* are round(window_size * (1 - overlap)) apart (1 where the rounding gives
\* 0), and that stride is at least 1.
C20_StrideIsRounded ==
    Planned =>
        \A axis \in 1..2 :
            image_size[axis] > roi_size[axis] =>
                LET stride == Max2(PyRound(roi_size[axis] * (cfg.overlap[2] - cfg.overlap[1]),
                                           cfg.overlap[2]), 1)
                IN  /\ stride >= 1
                    /\ \A s \in StartsOn(axis) :
                          (s # LastStart(axis) /\ NextStart(axis, s) # LastStart(axis)) =>
                              NextStart(axis, s) - s = stride

\* C20 amended: the stride is int(window_size * (1 - overlap)), the product
\* truncated, and 1 where that gives 0; placements before the last are that
\* far apart, and the last one is more than 0 and at most the stride after
\* the one before it.
C20_StrideIsTruncated ==
    Planned =>
        \A axis \in 1..2 :
            image_size[axis] > roi_size[axis] =>
                LET stride == Max2((roi_size[axis] * (cfg.overlap[2] - cfg.overlap[1]))
                                       \div cfg.overlap[2], 1)
                IN  /\ stride >= 1
                    /\ \A s \in StartsOn(axis) :
                          s # LastStart(axis) =>
                              IF NextStart(axis, s) # LastStart(axis)
                              THEN NextStart(axis, s) - s = stride
                              ELSE /\ NextStart(axis, s) - s > 0
                                   /\ NextStart(axis, s) - s <= stride

\* C20 witness: an axis with window 2 and overlap 1/4, where the product 1.5
\* truncates to 1 and rounds to 2, holds the starts 0, 1 and 2.
C20_Witness ==
    /\ Planned
    /\ roi_size[1] = 2
    /\ cfg.overlap = <<1, 4>>
    /\ image_size[1] = 4
    /\ StartsOn(1) = {0, 1, 2}


\* The work units of the group at hand, and the zoom scale of head ss of the
\* result at hand.
GroupNow == UnravelSlice(slice_g, cfg.sw_batch_size, num_win, total_slices)

HeadZoom(ss) == ZoomScale(seg_prob_tuple[ss][1].shape, window_data[1].shape)

\* The bounds of a placement scaled by a zoom scale and truncated, and the
\* same rounded to the nearest integer.
TruncatedBounds(sl, zoom) ==
    [axis \in 1..2 |-> <<(sl[axis][1] * zoom[axis][1]) \div zoom[axis][2],
                         (sl[axis][2] * zoom[axis][1]) \div zoom[axis][2]>>]

NearestBounds(sl, zoom) ==
    [axis \in 1..2 |-> <<PyRound(sl[axis][1] * zoom[axis][1], zoom[axis][2]),
                         PyRound(sl[axis][2] * zoom[axis][1], zoom[axis][2])>>]

NonIntegerBounds(sl, zoom) ==
    \E axis \in 1..2 : \E j \in 1..2 : (sl[axis][j] * zoom[axis][1]) % zoom[axis][2] # 0

\* The spatial shape of head ss's buffer: the one allocated, or the one the
\* step at hand is going to allocate.
BufferShape(ss) ==
    IF ss <= Len(count_map_list) THEN count_map_list[ss].shape
    ELSE [axis \in 1..2 |->
             (image_size[axis] * HeadZoom(ss)[axis][1]) \div HeadZoom(ss)[axis][2]]

\* Bounds cut to a buffer of the given shape, as slicing does.
CutTo(bounds, shape) ==
    [axis \in 1..2 |-> <<Min2(bounds[axis][1], shape[axis]),
                         Max2(Min2(bounds[axis][2], shape[axis]),
                              Min2(bounds[axis][1], shape[axis]))>>]

\* The prediction of unit k for head ss has the size of the region that the
\* truncated bounds select in the head's buffer.
FitsTruncated(ss, k) ==
    \A axis \in 1..2 :
        LET reg == CutTo(TruncatedBounds(slices[GroupNow[k].win], HeadZoom(ss)),
                         BufferShape(ss))
        IN  reg[axis][2] - reg[axis][1] = seg_prob_tuple[ss][k].shape[axis]

\* The zoom scale of the head that the accumulated entry e belongs to.
EntryZoom(e) ==
    ZoomScale(HeadShape(HeadNameAt(GroupOf(e.from), e.head), roi_size), roi_size)

\* C21 as stated: an accumulated window whose scaled start or stop is not an
\* integer went to the region bounded by the nearest integers to the scaled
\* start and stop, the diagnostic was emitted, and the region has the size of
\* the prediction added.
C21_RegionRoundedToNearest ==
    \A i \in 1..Len(accumulated) :
        LET e == accumulated[i]
            sl == slices[e.from.win]
        IN  NonIntegerBounds(sl, EntryZoom(e)) =>
                /\ e.region = NearestBounds(sl, EntryZoom(e))
                /\ "non-integer range" \in warned
                /\ RegionShape(e.region)
                     = HeadShape(HeadNameAt(GroupOf(e.from), e.head), roi_size)

\* C21 amended: such a window went to the region bounded by the scaled start
\* and stop truncated toward zero, the diagnostic was emitted, and the region
\* has the size of the prediction added; before every accumulate step each
\* prediction with non-integer scaled bounds fits its region, and an
\* accumulate step that failed had a prediction with integer scaled bounds
\* that did not fit.
C21_RegionTruncated ==
    /\ \A i \in 1..Len(accumulated) :
          LET e == accumulated[i]
              sl == slices[e.from.win]
          IN  NonIntegerBounds(sl, EntryZoom(e)) =>
                  /\ e.region = TruncatedBounds(sl, EntryZoom(e))
                  /\ "non-integer range" \in warned
                  /\ RegionShape(e.region)
                       = HeadShape(HeadNameAt(GroupOf(e.from), e.head), roi_size)
    /\ pc = "accumulate" =>
          \A ss \in 1..Len(seg_prob_tuple) : \A k \in 1..Len(GroupNow) :
              NonIntegerBounds(slices[GroupNow[k].win], HeadZoom(ss)) => FitsTruncated(ss, k)
    /\ (pc = "raised" /\ err = "RuntimeError") =>
          \E ss \in 1..Len(seg_prob_tuple) : \E k \in 1..Len(GroupNow) :
              /\ ~NonIntegerBounds(slices[GroupNow[k].win], HeadZoom(ss))
              /\ ~FitsTruncated(ss, k)

\* C21 witness: a call returned in which a window starting at 1 was added to
\* a head of 2/3 of the window's resolution, at the region starting at 0.
C21_Witness ==
    /\ pc = "done"
    /\ "non-integer range" \in warned
    /\ \E i \in 1..Len(accumulated) :
          /\ slices[accumulated[i].from.win][1] = <<1, 4>>
          /\ EntryZoom(accumulated[i])[1] = <<2, 3>>
          /\ accumulated[i].region[1] = <<0, 2>>


\* What a call with a predictor that returns the same container every time
\* hands to its g-th invocation, and what it returns.
ExpectedGroup(g) ==
    UnravelSlice((g - 1) * cfg.sw_batch_size, cfg.sw_batch_size, Len(slices),
                 Len(slices) * cfg.batch_size)

ExpectedOutput ==
    [kind |-> cfg.predictor.first.kind,
     keys |-> IF cfg.predictor.first.kind = "map" THEN SortKeys(cfg.predictor.first.heads)
              ELSE <<>>,
     heads |-> [j \in 1..Len(cfg.predictor.first.heads) |->
                   StitchedRef(IF cfg.predictor.first.kind = "map"
                               THEN SortKeys(cfg.predictor.first.heads)[j]
                               ELSE cfg.predictor.first.heads[j])]]

\* C22: a call ends with an error only for an overlap out of range, with
\* progress reporting on as with it off; the predictor's invocations are on
\* the groups of the plan in their order; and the output returned is the
\* stitched result, whatever the progress toggle.
C22_ProgressOnlyReports ==
    /\ pc = "raised" => (err = "ValueError" /\ OverlapOutOfRange(cfg.overlap))
    /\ \A g \in 1..Len(calls) : calls[g].group = ExpectedGroup(g)
    /\ pc = "done" => final_output = ExpectedOutput
    /\ (pc = "normalize" /\ cfg.progress) =>
          Len(calls) = (Len(slices) * cfg.batch_size + cfg.sw_batch_size - 1)
                         \div cfg.sw_batch_size

\* C23: no call ends on the patch-shape assertions; every group handed to
\* the predictor has on each spatial axis the predictor input resolution of
\* that axis, which here is the window size of that axis.
C23_PatchAssertionsHold ==
    /\ ~(pc = "raised" /\ err = "AssertionError")
    /\ pc = "predict" =>
          \A n \in 1..Len(window_data) :
              /\ window_data[n].shape = cfg.input_size.v
              /\ window_data[n].shape = roi_size

\* C24: when the predictor input resolution differs from the window size and
\* the predictor returns a sequence or a mapping, the call does not end with
\* an error; every head about to be accumulated has the window size; and the
\* output has the predictor's container kind and number of heads.
C24_ResamplingForEveryContainer ==
    (/\ pc \notin {"start", "pad"}
     /\ cfg.input_size.v # roi_size
     /\ roi_size[1] = roi_size[2]
     /\ HonoursContract
     /\ cfg.predictor.first.kind \in {"seq", "map"}) =>
        /\ pc # "raised"
        /\ pc = "accumulate" =>
              \A ss \in 1..Len(seg_prob_tuple) : \A n \in 1..Len(seg_prob_tuple[ss]) :
                  seg_prob_tuple[ss][n].shape = roi_size
        /\ pc = "done" =>
              /\ final_output.kind = cfg.predictor.first.kind
              /\ Len(final_output.heads) = Len(cfg.predictor.first.heads)

=============================================================================
